---- MODULE Spec2Model ----
(***************************************************************************)
(* gojiutil: HTTP middlewares for goji (request ID, log15 request logger,  *)
(* panic recoverer, form / JSON body parsers) and the error-response       *)
(* helpers they share.                                                     *)
(*                                                                         *)
(* A request is served by a chain of middlewares ending in the             *)
(* application handler.  Layer i of a chain is a middleware, layer         *)
(* Len(chain)+1 is the handler, layer 0 is the server that called the      *)
(* chain.  For each request the model keeps the layer that holds control   *)
(* (depth) and what it is doing (mode):                                    *)
(*   "call"   layer depth has just been invoked                            *)
(*   "run"    the application handler is executing                         *)
(*   "ret"    the layer below depth returned normally to layer depth       *)
(*   "panic"  the layer below depth panicked; layer depth is unwinding     *)
(* The model follows the newest copy of the package (src/unnamed/part_000) *)
(* and the helpers of response.go (second half of src/middleware_test.go). *)
(* c.Env is taken as allocated (the package's documented assumption, see   *)
(* the comment on Logger15: "Assumes that c.Env is allocated").            *)
(***************************************************************************)
EXTENDS Integers, Sequences, FiniteSets, TLC

VARIABLES rq, reqID, logs

vars == <<rq, reqID, logs>>

\* Request slots (requests that may be in flight at the same time).
NumReq == 3
\* Operations the application handler performs before it returns or panics.
MaxSteps == 2

Reqs == 1..NumReq

-----------------------------------------------------------------------------
(* Values held in c.Env (map[string]interface{}), tagged by dynamic type.   *)

Absent == [t |-> "absent"]
Str(s) == [t |-> "string", s |-> s]
Strs(l) == [t |-> "strings", l |-> l]
JsonMap(m) == [t |-> "map", m |-> m]
CtxLogger(id) == [t |-> "logger", req |-> id]

\* c.Env after middleware.EnvInit: allocated, no entries.
EnvInit == [reqID |-> Absent, err |-> Absent, stack |-> Absent,
            json |-> Absent, log |-> Absent]

\* middleware.GetReqID(c): the string under RequestIDKey, "" when there is none.
GetReqID(env) == IF env.reqID.t = "string" THEN env.reqID.s ELSE ""

-----------------------------------------------------------------------------
(* Stack traces.  A line is a sequence of tokens, so that "goroutine"       *)
(* prefixes, the position of "(" and leading tabs can be computed.          *)

GoroutineLine == <<"goroutine", " 7 [running]:">>
FnLine(name) == <<name, "(", "0x1", ")">>
SrcLine(loc) == <<"\t", loc>>
CreatedByLine == <<"created by main.serve">>
EmptyLine == <<>>

\* strings.Split(string(buf), "\n") of runtime.Stack's output, called in `where`:
\* the goroutine header, then two lines per frame, then the empty last line.
RuntimeStack(where) ==
  << GoroutineLine,
     FnLine(where), SrcLine("response.go:138"),
     FnLine("panic"), SrcLine("panic.go:491"),
     FnLine("main.handler"), SrcLine("main.go:9"),
     FnLine("web.Mux.ServeHTTP"), SrcLine("mux.go:5"),
     FnLine("http.serve"), SrcLine("server.go:1"),
     CreatedByLine, SrcLine("server.go:2"),
     EmptyLine >>

\* lines[3:]
From3(lines) == SubSeq(lines, 4, Len(lines))

\* strings.HasPrefix(line, "goroutine")
HasGoroutinePrefix(line) == Len(line) > 0 /\ line[1] = "goroutine"

\* strings.Index(line, "("): 0-based position of the first "(", or -1.
IndexParen(line) ==
  LET at == {i \in 1..Len(line) : line[i] = "("}
  IN IF at = {} THEN -1 ELSE (CHOOSE i \in at : \A j \in at : i <= j) - 1

RECURSIVE TrimLeftTab(_)
\* strings.TrimLeft(line, "\t")
TrimLeftTab(line) ==
  IF Len(line) > 0 /\ line[1] = "\t" THEN TrimLeftTab(Tail(line)) ELSE line

\* number of stack levels Logger15 prints
levels == 3

RECURSIVE StackLevels(_, _)
\* The stack%d loop of Logger15 from level i on: the ctx entries it appends,
\* or a panic when a function line holds no "(" (slice bound -1).
StackLevels(s, i) ==
  IF ~(i < levels /\ 2 * i + 1 < Len(s))
  THEN [panic |-> FALSE, ctx |-> <<>>]
  ELSE LET idx == IndexParen(s[2 * i + 1])
       IN IF idx < 0
          THEN [panic |-> TRUE, ctx |-> <<>>]
          ELSE LET funcName == SubSeq(s[2 * i + 1], 1, idx)
                   sourceLine == TrimLeftTab(s[2 * i + 2])
                   rest == StackLevels(s, i + 1)
               IN [panic |-> rest.panic,
                   ctx |-> << <<"stack" \o ToString(i),
                                funcName \o <<" @ ">> \o sourceLine>> >>
                           \o rest.ctx]

\* Logger15's switch on c.Env["stack"] for a status >= 500.
StackCtx(v) ==
  CASE v.t = "string" -> [panic |-> FALSE, ctx |-> << <<"stack", v.s>> >>]
    [] v.t = "strings" ->
         IF Len(v.l) = 0
         THEN [panic |-> TRUE, ctx |-> <<>>]      \* s[0]: index out of range
         ELSE StackLevels(IF HasGoroutinePrefix(v.l[1]) /\ Len(v.l) > 3
                          THEN From3(v.l) ELSE v.l, 0)
    [] OTHER -> [panic |-> FALSE, ctx |-> <<>>]

-----------------------------------------------------------------------------
(* The request: what the middlewares read from *http.Request.               *)

RequestIDHeader == "X-Request-Id"
\* random prefix computed once by init()
reqPrefix == "Zk3f9QpLx0"

Methods == {"POST", "GET"}
RequestIDs == {"", "abc"}                   \* X-Request-Id values ("" = no header)
ContentLengths == {"", "0", "7", "x"}       \* content-length values ("" = no header)
ContentTypes == {"", "application/json", "text/plain"}
Bodies == {"", "{\"a\":1}", "null", "[1]", "{bad"}

\* strconv.Atoi on the content-length values above
Atoi(clh) ==
  CASE clh = "0" -> [err |-> "", n |-> 0]
    [] clh = "7" -> [err |-> "", n |-> 7]
    [] OTHER -> [err |-> "strconv.ParseInt: parsing " \o clh \o ": invalid syntax",
                 n |-> 0]

\* json.NewDecoder(r.Body).Decode(&js) with js a nil map[string]interface{}
Decode(body) ==
  CASE body = "" -> [err |-> "EOF", js |-> JsonMap("nil")]
    [] body = "null" -> [err |-> "", js |-> JsonMap("nil")]
    [] body = "{\"a\":1}" -> [err |-> "", js |-> JsonMap(body)]
    [] body = "[1]" ->
         [err |-> "json: cannot unmarshal array into Go value of type map[string]interface {}",
          js |-> JsonMap("nil")]
    [] OTHER -> [err |-> "invalid character 'b' looking for beginning of object key string",
                 js |-> JsonMap("nil")]

\* whether the body is a well-formed JSON text (RFC 7159: any JSON value)
ParsesAsJSON(body) == body \in {"{\"a\":1}", "null", "[1]"}

-----------------------------------------------------------------------------
(* http.ResponseWriter and the mutil wrapper Logger15 puts around it.       *)

NewWriter == [wrote |-> FALSE, code |-> 0, body |-> <<>>]
NoWrapper == [on |-> FALSE, wrote |-> FALSE, code |-> 0]

\* Layer i writes through Logger15's wrapper when a Logger15 sits above it.
Wrapped(q, i) == \E j \in 1..(i - 1) : j <= Len(q.chain) /\ q.chain[j] = "Logger15"

\* Variant of WriteHeader: the wrapper records the status and keeps it to itself.
WriteHeaderKept(q, i, code) ==
  IF Wrapped(q, i)
  THEN IF q.wp.wrote THEN q
       ELSE [q EXCEPT !.wp = [on |-> TRUE, wrote |-> TRUE, code |-> code]]
  ELSE [q EXCEPT !.rw = IF q.rw.wrote THEN q.rw
                        ELSE [q.rw EXCEPT !.wrote = TRUE, !.code = code]]

\* rw.WriteHeader(code) by layer i: only the first WriteHeader counts, in the
\* wrapper (basicWriter.WriteHeader) and in the underlying writer alike.
WriteHeader(q, i, code) ==
  LET under == IF q.rw.wrote THEN q.rw
               ELSE [q.rw EXCEPT !.wrote = TRUE, !.code = code]
  IN IF Wrapped(q, i)
     THEN IF q.wp.wrote THEN q
          ELSE [q EXCEPT !.wp = [on |-> TRUE, wrote |-> TRUE, code |-> code],
                         !.rw = under]
     ELSE [q EXCEPT !.rw = under]

\* rw.Write(text) by layer i: an implicit WriteHeader(200), then the bytes.
Write(q, i, text) ==
  LET q1 == WriteHeader(q, i, 200)
  IN [q1 EXCEPT !.rw.body = @ \o text]

\* http.Error(rw, text, code): WriteHeader(code), then Fprintln(rw, text).
HttpError(q, i, text, code) == Write(WriteHeader(q, i, code), i, text \o <<"\n">>)

\* wp.Status(): the code recorded by the wrapper, 0 when nothing was written.
Status(q) == q.wp.code

\* The status line the client gets once the chain has returned.
ClientStatus(q) == IF q.rw.wrote THEN q.rw.code ELSE 200

-----------------------------------------------------------------------------
(* response.go                                                              *)

\* The generic body of a 5xx response.
InternalErrorText(id) == <<"Internal Error (request ID: ", id, ")">>

\* Variant of ErrorText: the message is sent whatever the status.
ErrorTextDetailed(code, str, id) == <<str>>

\* The text ErrorString sends: generic for a 5xx, the message itself otherwise.
ErrorText(code, str, id) == IF code >= 500 THEN InternalErrorText(id) ELSE <<str>>

ErrorString(q, i, code, str) ==
  LET q1 == [q EXCEPT !.env.err = Str(str)]
  IN HttpError(q1, i, ErrorText(code, str, GetReqID(q1.env)), code)

\* Errorf(c, rw, code, "panic: %v", val)
Errorf(q, i, code, prefix, val) == ErrorString(q, i, code, prefix \o val)

\* ErrorInternal(c, rw, err); err = "" stands for a nil error.
ErrorInternal(q, i, err) ==
  LET q1 == [q EXCEPT !.env.stack = Strs(From3(RuntimeStack("gojiutil.ErrorInternal")))]
  IN IF err # ""
     THEN ErrorString(q1, i, 500, err)
     ELSE ErrorString(q1, i, 500, "nil err passed into gojiutil.ErrorInternal")

-----------------------------------------------------------------------------
(* Control flow of one request through its chain.                           *)

\* index of the application handler of request record q
H(q) == Len(q.chain) + 1

\* layer `depth` calls h.ServeHTTP: the next layer is invoked
Invoke(q) == [q EXCEPT !.depth = @ + 1, !.mode = "call", !.calls[q.depth + 1] = @ + 1]

\* layer `depth` returns normally to its caller
ReturnUp(q) == [q EXCEPT !.depth = @ - 1, !.mode = "ret"]

\* a panic with value val leaves layer `depth`
PanicUp(q, val) == [q EXCEPT !.depth = @ - 1, !.mode = "panic", !.panicVal = val]

\* middleware `name` holds control of request r in mode m
At(r, m, name) ==
  /\ rq[r].active
  /\ rq[r].mode = m
  /\ rq[r].depth \in 1..Len(rq[r].chain)
  /\ rq[r].chain[rq[r].depth] = name

\* the application handler of request r is executing
Running(r) == rq[r].active /\ rq[r].mode = "run"

\* a log15 record, emitted while serving request r
Record(r, logger, lvl, msg, ctx) ==
  [r |-> r, logger |-> logger, lvl |-> lvl, msg |-> msg, ctx |-> ctx]

Done(q) == q.active /\ q.depth = 0 /\ q.mode = "ret"
Crashed(q) == q.active /\ q.depth = 0 /\ q.mode = "panic"

-----------------------------------------------------------------------------
(* Middlewares                                                              *)

\* EnvAdd(m): merge m into c.Env, call the next handler.
EnvAdd(r) ==
  /\ At(r, "call", "EnvAdd")
  /\ LET q == rq[r]
         env2 == [k \in DOMAIN q.env |->
                    IF k \in DOMAIN q.envAdd THEN q.envAdd[k] ELSE q.env[k]]
     IN rq' = [rq EXCEPT ![r] = Invoke([q EXCEPT !.env = env2])]
  /\ UNCHANGED <<reqID, logs>>

\* fmt.Sprintf("%s-%d", reqPrefix, n)
GenID(n) == reqPrefix \o "-" \o ToString(n)

\* Variant of AddInt64: a load and a store that another request's increment
\* can fall between, so that the value stored may be the one already there.
AddInt64Racy(n) == {n, n + 1}

\* atomic.AddInt64(&reqID, 1) on a counter holding n: the values it can store
\* and return.  The add is one atomic step, so there is one such value.
AddInt64(n) == {n + 1}

\* Variant of Bump: the counter is incremented for every request.
BumpAlways(hdr, n) == AddInt64(n)

\* The counter after RequestID saw header value hdr: touched only to generate.
Bump(hdr, n) == IF hdr = "" THEN AddInt64(n) ELSE {n}

\* Variant of NewID: the header is not looked at.
NewIDGenerated(hdr, n) == GenID(n)

\* The request ID: the header's value, else one generated from the counter value n.
NewID(hdr, n) == IF hdr = "" THEN GenID(n) ELSE hdr

\* RequestID: store the ID under RequestIDKey, call the next handler.
RequestID(r) ==
  /\ At(r, "call", "RequestID")
  /\ LET q == rq[r]
         hdr == q.req.rid
     IN \E n \in Bump(hdr, reqID) :
          /\ reqID' = n
          /\ rq' = [rq EXCEPT ![r] = Invoke([q EXCEPT !.env.reqID = Str(NewID(hdr, n))])]
  /\ UNCHANGED logs

\* ContextLogger: a logger bound to the request ID, when there is one.
ContextLogger(r) ==
  /\ At(r, "call", "ContextLogger")
  /\ LET q == rq[r]
     IN rq' = [rq EXCEPT ![r] =
                 Invoke(IF q.env.reqID.t = "string"
                        THEN [q EXCEPT !.env.log = CtxLogger(q.env.reqID.s)]
                        ELSE q)]
  /\ UNCHANGED <<reqID, logs>>

\* Variant of Logger15Begin: the request is logged as it comes in.
Logger15BeginEager(r) ==
  /\ At(r, "call", "Logger15")
  /\ LET q == rq[r]
         ctx == << <<"verb", q.req.method>> >>
     IN /\ logs' = Append(logs, Record(r, "logger", "info", q.req.path, ctx))
        /\ rq' = [rq EXCEPT ![r] =
                    Invoke([q EXCEPT !.lctx = ctx,
                                     !.wp = [on |-> TRUE, wrote |-> FALSE, code |-> 0]])]
  /\ UNCHANGED reqID

\* Logger15, up to the call of the next handler: the request part of ctx and
\* the wrapper writer.
Logger15Begin(r) ==
  /\ At(r, "call", "Logger15")
  /\ LET q == rq[r]
         id == GetReqID(q.env)
         ctx == (IF id # "" THEN << <<"req", id>> >> ELSE <<>>)
                \o << <<"verb", q.req.method>> >>
                \o (IF q.req.remoteAddr # "" THEN << <<"ip", q.req.remoteAddr>> >> ELSE <<>>)
     IN rq' = [rq EXCEPT ![r] =
                 Invoke([q EXCEPT !.lctx = ctx,
                                  !.wp = [on |-> TRUE, wrote |-> FALSE, code |-> 0]])]
  /\ UNCHANGED <<reqID, logs>>

\* Variant of Level: the boundaries 500 and 400 fall to the lower level.
LevelStrict(s) == IF s > 500 THEN "crit" ELSE IF s > 400 THEN "warn" ELSE "info"

\* The level Logger15 logs a response of status s at.
Level(s) == IF s >= 500 THEN "crit" ELSE IF s >= 400 THEN "warn" ELSE "info"

\* Variant of LogTarget: the record goes to log15's root logger.
LogTargetRoot == "root"

\* The logger Logger15(logger) emits its record to.
LogTarget == "logger"

\* Logger15, after the next handler returned: the response part of ctx, then
\* one record at the level of the status.
Logger15End(r) ==
  /\ At(r, "ret", "Logger15")
  /\ LET q == rq[r]
         s == Status(q)
         ctx == q.lctx
                \o << <<"time", "dur">>, <<"status", ToString(s)>> >>
                \o (IF q.env.err.t = "string" THEN << <<"err", q.env.err.s>> >> ELSE <<>>)
         st == IF s >= 500 THEN StackCtx(q.env.stack) ELSE [panic |-> FALSE, ctx |-> <<>>]
     IN IF st.panic
        THEN /\ rq' = [rq EXCEPT ![r] = PanicUp(q, "runtime error: out of range")]
             /\ UNCHANGED logs
        ELSE /\ logs' = Append(logs, Record(r, LogTarget, Level(s), q.req.path, ctx \o st.ctx))
             /\ rq' = [rq EXCEPT ![r] = ReturnUp(q)]
  /\ UNCHANGED reqID

\* ParamsLogger(verbose): a Debug record at the start of the request, to the
\* context logger when c.Env holds one, else to the root logger.
ParamsLogger(r) ==
  /\ At(r, "call", "ParamsLogger")
  /\ LET q == rq[r]
         log == IF q.env.log.t = "logger" THEN "ctx" ELSE "root"
     IN /\ logs' = Append(logs, Record(r, log, "dbug",
                                       "Begin " \o q.req.method \o " " \o q.req.path, q.form))
        /\ rq' = [rq EXCEPT ![r] = Invoke(q)]
  /\ UNCHANGED reqID

\* Recoverer, up to the call of the next handler.
RecovererBegin(r) ==
  /\ At(r, "call", "Recoverer")
  /\ rq' = [rq EXCEPT ![r] = Invoke(rq[r])]
  /\ UNCHANGED <<reqID, logs>>

\* Variant of RecovererRecover: the 500 is sent, the stack is not kept.
RecovererNoStack(r) ==
  /\ At(r, "panic", "Recoverer")
  /\ rq' = [rq EXCEPT ![r] =
              ReturnUp(Errorf(rq[r], rq[r].depth, 500, "panic: ", rq[r].panicVal))]
  /\ UNCHANGED <<reqID, logs>>

\* Variant of RecovererRecover: no recover(), the panic goes on to the caller.
RecovererRethrow(r) ==
  /\ At(r, "panic", "Recoverer")
  /\ rq' = [rq EXCEPT ![r] = PanicUp(rq[r], rq[r].panicVal)]
  /\ UNCHANGED <<reqID, logs>>

\* Recoverer's deferred function when the next handler panicked.
RecovererRecover(r) ==
  /\ At(r, "panic", "Recoverer")
  /\ LET q == rq[r]
         q1 == [q EXCEPT !.env.stack =
                           Strs(From3(RuntimeStack("gojiutil.Recoverer.func1.1")))]
     IN rq' = [rq EXCEPT ![r] =
                 ReturnUp(Errorf(q1, q.depth, 500, "panic: ", q.panicVal))]
  /\ UNCHANGED <<reqID, logs>>

\* Variant of FormParser: the return after the error response is missing.
FormParserNoReturn(r) ==
  /\ At(r, "call", "FormParser")
  /\ LET q == rq[r]
     IN rq' = [rq EXCEPT ![r] =
                 IF q.req.formErr # ""
                 THEN Invoke(ErrorString(q, q.depth, 400, q.req.formErr))
                 ELSE Invoke([q EXCEPT !.form = q.req.form])]
  /\ UNCHANGED <<reqID, logs>>

\* FormParser: r.ParseForm(), 400 when it fails.
FormParser(r) ==
  /\ At(r, "call", "FormParser")
  /\ LET q == rq[r]
     IN rq' = [rq EXCEPT ![r] =
                 IF q.req.formErr # ""
                 THEN ReturnUp(ErrorString(q, q.depth, 400, q.req.formErr))
                 ELSE Invoke([q EXCEPT !.form = q.req.form])]
  /\ UNCHANGED <<reqID, logs>>

\* Variant of EmptyBodyOK: io.EOF is an error like any other.
EmptyBodyNever(cl) == FALSE

\* An empty body (io.EOF from the decoder) is accepted when the declared
\* content-length cl is 0.
EmptyBodyOK(cl) == cl = 0

\* GetJSONBody: the checks of content-length and content-type, the decoding.
GetJSONBody(r) ==
  /\ At(r, "call", "GetJSONBody")
  /\ LET q == rq[r]
         i == q.depth
         clh == q.req.clh
         ct == q.req.ct
         at == Atoi(clh)
         cl == IF clh # "" THEN at.n ELSE 0
         d == Decode(q.req.body)
     IN rq' = [rq EXCEPT ![r] =
          IF clh # "" /\ at.err # ""
          THEN ReturnUp(ErrorString(q, i, 400, "Invalid content-length: " \o at.err))
          ELSE IF ct # "" /\ ct # "application/json"
          THEN ReturnUp(ErrorString(q, i, 400,
                 "Invalid content-type '" \o ct \o "', application/json expected"))
          ELSE IF d.err = "EOF" /\ ~EmptyBodyOK(cl)
          THEN ReturnUp(ErrorString(q, i, 400, "Premature EOF reading post body"))
          ELSE IF d.err # "EOF" /\ d.err # ""
          THEN ReturnUp(ErrorString(q, i, 400, "Cannot parse JSON request body: " \o d.err))
          ELSE Invoke([q EXCEPT !.env.json = d.js])]
  /\ UNCHANGED <<reqID, logs>>

\* A middleware with nothing to do after the next handler returns.
Return(r) ==
  /\ rq[r].active /\ rq[r].mode = "ret"
  /\ rq[r].depth \in 1..Len(rq[r].chain)
  /\ rq[r].chain[rq[r].depth] # "Logger15"
  /\ rq' = [rq EXCEPT ![r] = ReturnUp(rq[r])]
  /\ UNCHANGED <<reqID, logs>>

\* A panic passes through a middleware that defers no recover().
Unwind(r) ==
  /\ rq[r].active /\ rq[r].mode = "panic"
  /\ rq[r].depth \in 1..Len(rq[r].chain)
  /\ rq[r].chain[rq[r].depth] # "Recoverer"
  /\ rq' = [rq EXCEPT ![r] = PanicUp(rq[r], rq[r].panicVal)]
  /\ UNCHANGED <<reqID, logs>>

-----------------------------------------------------------------------------
(* The application handler: any sequence of at most MaxSteps of the         *)
(* operations below, then a return or a panic.                              *)

Codes == {200, 399, 400, 499, 500}

\* the handler is entered
HandlerBegin(r) ==
  /\ rq[r].active /\ rq[r].mode = "call" /\ rq[r].depth = H(rq[r])
  /\ rq' = [rq EXCEPT ![r].mode = "run"]
  /\ UNCHANGED <<reqID, logs>>

\* Bookkeeping of a handler operation that took q0 to q1: the operation joins
\* the handler's history, and the writer as it was before is kept.
Step(q0, q1, op, code, str) ==
  [q1 EXCEPT !.steps = @ + 1,
             !.hist = Append(@, [op |-> op, code |-> code, str |-> str]),
             !.pre = q0.rw]

\* rw.WriteHeader(code)
HandlerWriteHeader(r) ==
  /\ Running(r) /\ rq[r].steps < MaxSteps
  /\ \E code \in Codes :
       rq' = [rq EXCEPT ![r] =
                Step(rq[r], WriteHeader(rq[r], H(rq[r]), code), "WriteHeader", code, "")]
  /\ UNCHANGED <<reqID, logs>>

\* rw.Write([]byte("13 characters"))
HandlerWrite(r) ==
  /\ Running(r) /\ rq[r].steps < MaxSteps
  /\ rq' = [rq EXCEPT ![r] =
              Step(rq[r], Write(rq[r], H(rq[r]), <<"13 characters">>),
                   "Write", 200, "13 characters")]
  /\ UNCHANGED <<reqID, logs>>

\* gojiutil.ErrorString(c, rw, code, str)
HandlerErrorString(r) ==
  /\ Running(r) /\ rq[r].steps < MaxSteps
  /\ \E code \in {404, 500}, str \in {"boom"} :
       rq' = [rq EXCEPT ![r] =
                Step(rq[r], ErrorString(rq[r], H(rq[r]), code, str),
                     "ErrorString", code, str)]
  /\ UNCHANGED <<reqID, logs>>

\* gojiutil.ErrorInternal(c, rw, err)
HandlerErrorInternal(r) ==
  /\ Running(r) /\ rq[r].steps < MaxSteps
  /\ \E err \in {"", "db down"} :
       rq' = [rq EXCEPT ![r] =
                Step(rq[r], ErrorInternal(rq[r], H(rq[r]), err), "ErrorInternal", 500, err)]
  /\ UNCHANGED <<reqID, logs>>

\* panic(val)
HandlerPanic(r) ==
  /\ Running(r)
  /\ rq' = [rq EXCEPT ![r] = PanicUp([rq[r] EXCEPT !.panicked = TRUE], "oops")]
  /\ UNCHANGED <<reqID, logs>>

\* the handler returns
HandlerReturn(r) ==
  /\ Running(r)
  /\ rq' = [rq EXCEPT ![r] = ReturnUp(rq[r])]
  /\ UNCHANGED <<reqID, logs>>

-----------------------------------------------------------------------------
(* Configurations                                                           *)

Has(chain, name) == \E i \in 1..Len(chain) : chain[i] = name

\* Middleware stacks: the one of the tests, the one AddCommon15 installs
\* (without goji's own EnvInit and RealIP), and each middleware in use.
Chains ==
  { <<"Logger15">>,
    <<"Recoverer">>,
    <<"Logger15", "Recoverer">>,
    <<"RequestID", "ContextLogger", "Logger15", "Recoverer", "FormParser">>,
    <<"RequestID">>,
    <<"GetJSONBody">>,
    <<"Logger15", "GetJSONBody">>,
    <<"ParamsLogger">>,
    <<"Logger15", "ParamsLogger">>,
    <<"RequestID", "ContextLogger", "FormParser", "ParamsLogger">>,
    <<"EnvAdd", "Logger15">> }

\* maps given to EnvAdd
EnvAddMaps ==
  { [err |-> Str("teapot")],
    [stack |-> Str("main.go:9")],
    [stack |-> Strs(<<>>)],
    [stack |-> Strs(<<CreatedByLine, SrcLine("server.go:2")>>)],
    [stack |-> Strs(RuntimeStack("main.handler"))] }

NoMap == [x \in {} |-> Absent]

\* The requests that differ in what the middlewares of `chain` read.
Requests(chain) ==
  { [method |-> m, path |-> "/", remoteAddr |-> ip, rid |-> id,
     clh |-> clh, ct |-> ct, body |-> b, formErr |-> fe, form |-> f] :
      m \in IF Has(chain, "Logger15") \/ Has(chain, "ParamsLogger")
            THEN Methods ELSE {"POST"},
      ip \in IF Has(chain, "Logger15") THEN {"", "10.0.0.1:80"} ELSE {""},
      id \in IF Has(chain, "RequestID") THEN RequestIDs ELSE {""},
      clh \in IF Has(chain, "GetJSONBody") THEN ContentLengths ELSE {""},
      ct \in IF Has(chain, "GetJSONBody") THEN ContentTypes ELSE {""},
      b \in IF Has(chain, "GetJSONBody") THEN Bodies ELSE {""},
      fe \in IF Has(chain, "FormParser") THEN {"", "invalid URL escape"} ELSE {""},
      f \in IF Has(chain, "FormParser") THEN {<< <<"a", "1">> >>} ELSE {<<>>} }

\* A request as the server hands it to the first layer of its chain.
Arrived(chain, req, m) ==
  [active |-> TRUE, chain |-> chain, req |-> req, envAdd |-> m,
   depth |-> 1, mode |-> "call", env |-> EnvInit,
   rw |-> NewWriter, wp |-> NoWrapper, lctx |-> <<>>, form |-> <<>>,
   calls |-> [i \in 1..(Len(chain) + 1) |-> IF i = 1 THEN 1 ELSE 0],
   steps |-> 0, panicVal |-> "", panicked |-> FALSE, hist |-> <<>>, pre |-> NewWriter]

\* A slot no request uses.
Idle ==
  [active |-> FALSE, chain |-> <<>>, req |-> CHOOSE x \in Requests(<<>>) : TRUE,
   envAdd |-> NoMap, depth |-> 0, mode |-> "idle", env |-> EnvInit,
   rw |-> NewWriter, wp |-> NoWrapper, lctx |-> <<>>, form |-> <<>>,
   calls |-> [i \in 1..1 |-> 0], steps |-> 0, panicVal |-> "", panicked |-> FALSE, hist |-> <<>>, pre |-> NewWriter]

\* One request, through any of the chains.
Init ==
  /\ reqID = 0
  /\ logs = <<>>
  /\ \E chain \in Chains :
       \E req \in Requests(chain) :
         \E m \in IF Has(chain, "EnvAdd") THEN EnvAddMaps ELSE {NoMap} :
           rq = [r \in Reqs |-> IF r = 1 THEN Arrived(chain, req, m) ELSE Idle]

Next ==
  \E r \in Reqs :
    \/ EnvAdd(r)
    \/ RequestID(r)
    \/ ContextLogger(r)
    \/ Logger15Begin(r)
    \/ Logger15End(r)
    \/ ParamsLogger(r)
    \/ RecovererBegin(r)
    \/ RecovererRecover(r)
    \/ FormParser(r)
    \/ GetJSONBody(r)
    \/ Return(r)
    \/ Unwind(r)
    \/ HandlerBegin(r)
    \/ HandlerWriteHeader(r)
    \/ HandlerWrite(r)
    \/ HandlerErrorString(r)
    \/ HandlerErrorInternal(r)
    \/ HandlerPanic(r)
    \/ HandlerReturn(r)

Spec == Init /\ [][Next]_vars

\* NumReq requests served concurrently through RequestID, with or without
\* the X-Request-Id header.
InitConc ==
  /\ reqID = 0
  /\ logs = <<>>
  /\ rq \in [Reqs -> {Arrived(<<"RequestID">>, req, NoMap) : req \in Requests(<<"RequestID">>)}]

NextConc ==
  \E r \in Reqs :
    \/ RequestID(r)
    \/ HandlerBegin(r)
    \/ HandlerReturn(r)
    \/ Return(r)

SpecConc == InitConc /\ [][NextConc]_vars

-----------------------------------------------------------------------------
(* What the claims speak of                                                 *)

\* position of middleware `name` in the chain of q
Idx(q, name) == CHOOSE i \in 1..Len(q.chain) : q.chain[i] = name

\* layer i has been invoked and has acted (it called the next layer or returned)
Acted(q, i) == q.calls[i] >= 1 /\ ~(q.depth = i /\ q.mode = "call")

\* layer i has been invoked and control is back above it
Left(q, i) == q.calls[i] >= 1 /\ q.depth < i

\* the records Logger15 emitted for request r (ParamsLogger's are at level dbug)
L15Records(r) == SelectSeq(logs, LAMBDA e : e.r = r /\ e.lvl # "dbug")

\* the Debug records ParamsLogger emitted for request r
DebugRecords(r) == SelectSeq(logs, LAMBDA e : e.r = r /\ e.lvl = "dbug")

\* ctx holds the pair <<key, val>>
HasPair(ctx, key, val) == \E k \in 1..Len(ctx) : ctx[k] = <<key, val>>
HasKey(ctx, key) == \E k \in 1..Len(ctx) : ctx[k][1] = key

\* What the handler's operations, taken by themselves, send: the status of
\* the first one, and the texts of all of them in order.
OpCode(h) == h.code
OpText(h, id) ==
  CASE h.op = "Write" -> <<h.str>>
    [] h.op = "ErrorString" ->
         (IF h.code >= 500 THEN <<"Internal Error (request ID: ", id, ")">> ELSE <<h.str>>)
         \o <<"\n">>
    [] h.op = "ErrorInternal" -> <<"Internal Error (request ID: ", id, ")", "\n">>
    [] OTHER -> <<>>

RECURSIVE SentBody(_, _)
SentBody(hist, id) ==
  IF hist = <<>> THEN <<>> ELSE OpText(Head(hist), id) \o SentBody(Tail(hist), id)

SentStatus(hist) == IF hist = <<>> THEN 200 ELSE OpCode(hist[1])

RECURSIVE BodyLen(_)
\* number of bytes of a body
BodyLen(body) == IF body = <<>> THEN 0 ELSE Len(Head(body)) + BodyLen(Tail(body))

\* Logger15 cannot build its record: a 5xx whose c.Env["stack"] makes the
\* stack%d extraction index out of range.
BadStack(q) == Status(q) >= 500 /\ StackCtx(q.env.stack).panic

\* the handler panicked and no Recoverer sits between it and layer i
Unrecovered(q, i) ==
  q.panicked /\ ~\E j \in (i + 1)..Len(q.chain) : q.chain[j] = "Recoverer"

-----------------------------------------------------------------------------
-----------------------------------------------------------------------------
\* C2: once Logger15 has called the wrapped handler, that handler has been
\* invoked exactly once, and what was written below Logger15 is on the
\* response writer unchanged: the wrapper and the writer agree on the status,
\* and when the handler is wrapped directly the writer holds the status and
\* the body the handler sent (13 bytes without a status: 200, 13 bytes).
C2_HandlerOnceResponseUnchanged ==
  \A r \in Reqs :
    LET q == rq[r] IN
      (q.active /\ Has(q.chain, "Logger15") /\ Acted(q, Idx(q, "Logger15"))) =>
        LET i == Idx(q, "Logger15") IN
          /\ q.calls[i + 1] = 1
          /\ q.rw.wrote = q.wp.wrote
          /\ q.rw.wrote => q.rw.code = q.wp.code
          /\ (i = Len(q.chain) /\ q.mode # "call") =>
               /\ q.rw.wrote = (q.hist # <<>>)
               /\ ClientStatus(q) = SentStatus(q.hist)
               /\ q.rw.body = SentBody(q.hist, GetReqID(q.env))
               /\ q.hist = << [op |-> "Write", code |-> 200, str |-> "13 characters"] >>
                    => ClientStatus(q) = 200 /\ BodyLen(q.rw.body) = 13

\* C2 witness: a handler wrapped by Logger15 set a status of its own, wrote
\* the body, and the request is done.
C2_Witness ==
  \E r \in Reqs :
    /\ Done(rq[r]) /\ rq[r].chain = <<"Logger15">>
    /\ Len(rq[r].hist) = 2 /\ rq[r].hist[1].op = "WriteHeader" /\ rq[r].hist[1].code = 499
    /\ rq[r].hist[2].op = "Write"
    /\ rq[r].rw.code = 499 /\ BodyLen(rq[r].rw.body) = 13

-----------------------------------------------------------------------------
\* C3 (as stated): when the handler wrapped by Recoverer panicked, at any
\* point, the panic does not leave Recoverer and the response has status 500.
C3_Original ==
  \A r \in Reqs :
    LET q == rq[r] IN
      (q.active /\ Has(q.chain, "Recoverer") /\ q.panicked /\ Left(q, Idx(q, "Recoverer")))
        => q.mode = "ret" /\ ClientStatus(q) = 500

\* C3 (amended): when the handler wrapped by Recoverer panicked, the panic
\* does not leave Recoverer, c.Env holds the stack and "panic: <value>", and
\* the generic 5xx text ends the body; the response has status 500 when the
\* handler had written nothing before it panicked, and otherwise keeps the
\* status the handler had already sent.
C3_PanicRecovered ==
  \A r \in Reqs :
    LET q == rq[r] IN
      (q.active /\ Has(q.chain, "Recoverer") /\ q.panicked /\ Left(q, Idx(q, "Recoverer")))
        => /\ q.mode = "ret"
           /\ q.env.err = Str("panic: oops")
           /\ q.env.stack.t = "strings"
           /\ ClientStatus(q) = IF q.hist = <<>> THEN 500 ELSE OpCode(q.hist[1])
           /\ q.rw.body = SentBody(q.hist, GetReqID(q.env))
                            \o <<"Internal Error (request ID: ", GetReqID(q.env), ")", "\n">>

\* C3 witness: a handler panicked before writing anything, Recoverer
\* answered 500 and the request is done.
C3_Witness ==
  \E r \in Reqs :
    /\ Done(rq[r]) /\ Has(rq[r].chain, "Recoverer") /\ rq[r].panicked
    /\ rq[r].hist = <<>> /\ ClientStatus(rq[r]) = 500

-----------------------------------------------------------------------------
\* a request with an absent body: nothing to read, content-length absent or
\* 0, content-type absent or application/json
AbsentBody(req) ==
  req.body = "" /\ req.clh \in {"", "0"} /\ req.ct \in {"", "application/json"}

\* C4: for a request with an absent body, once GetJSONBody has acted the
\* next handler has been called exactly once, c.Env["json"] is the nil map,
\* and GetJSONBody wrote no error response: at the call of the next handler
\* nothing is written and c.Env["err"] is unset, and when the next handler is
\* the application handler the response holds what that handler sent only.
C4_AbsentBodyTolerated ==
  \A r \in Reqs :
    LET q == rq[r] IN
      (q.active /\ Has(q.chain, "GetJSONBody") /\ Acted(q, Idx(q, "GetJSONBody"))
         /\ AbsentBody(q.req)) =>
        LET i == Idx(q, "GetJSONBody") IN
          /\ q.calls[i + 1] = 1
          /\ q.env.json = JsonMap("nil")
          /\ (q.depth = i + 1 /\ q.mode = "call") => (~q.rw.wrote /\ q.env.err = Absent)
          /\ i = Len(q.chain) =>
               /\ q.rw.wrote = (q.hist # <<>>)
               /\ q.rw.body = SentBody(q.hist, GetReqID(q.env))

\* C4 witness: a request with no body, content-length 0 and content-type
\* application/json went through GetJSONBody and its handler, and is done.
C4_Witness ==
  \E r \in Reqs :
    /\ Done(rq[r]) /\ rq[r].chain = <<"GetJSONBody">>
    /\ rq[r].req.body = "" /\ rq[r].req.clh = "0" /\ rq[r].req.ct = "application/json"
    /\ rq[r].calls[2] = 1 /\ rq[r].env.json = JsonMap("nil")

-----------------------------------------------------------------------------
\* C5: once RequestID has acted, and so before the next handler starts,
\* c.Env[RequestIDKey] is a non-empty string: the X-Request-Id value when the
\* request has one (the counter is then untouched), else the prefix, a dash
\* and the counter's new value; the next handler was called exactly once.
C5_RequestIDSet ==
  \A r \in Reqs :
    LET q == rq[r] IN
      (q.active /\ Has(q.chain, "RequestID") /\ Acted(q, Idx(q, "RequestID"))) =>
        /\ q.calls[Idx(q, "RequestID") + 1] = 1
        /\ q.env.reqID.t = "string"
        /\ q.env.reqID.s # ""
        /\ q.req.rid # "" => (q.env.reqID.s = q.req.rid /\ reqID = 0)
        /\ q.req.rid = "" =>
             (q.env.reqID.s = reqPrefix \o "-" \o ToString(reqID) /\ reqID = 1)

\* C5 witness: a request without the header stands at the call of the layer
\* after RequestID, with the first generated ID in c.Env.
C5_Witness ==
  \E r \in Reqs :
    /\ rq[r].active /\ Has(rq[r].chain, "RequestID") /\ rq[r].req.rid = ""
    /\ rq[r].depth = 2 /\ rq[r].mode = "call"
    /\ rq[r].env.reqID = Str("Zk3f9QpLx0-1")

-----------------------------------------------------------------------------
\* request r takes its RequestID step
RequestIDStep(r) == At(r, "call", "RequestID") /\ rq'[r] # rq[r]

\* C6: the request-ID counter never decreases; a RequestID step of a request
\* without the header adds exactly 1 to it, one of a request with the header
\* leaves it as it is, and no other step changes it.
C6_CounterOnlyIncreases ==
  [][ /\ reqID' >= reqID
      /\ \A r \in Reqs :
           RequestIDStep(r) =>
             /\ rq[r].req.rid = "" => reqID' = reqID + 1
             /\ rq[r].req.rid # "" => reqID' = reqID
      /\ (\A r \in Reqs : ~RequestIDStep(r)) => reqID' = reqID ]_vars

\* C6 witness: two requests without the header and one with it have been
\* through RequestID; the counter stands at 2.
C6_Witness ==
  /\ reqID = 2
  /\ \E r \in Reqs : rq[r].req.rid = "abc" /\ Acted(rq[r], 1)
  /\ Cardinality({r \in Reqs : rq[r].req.rid = "" /\ Acted(rq[r], 1)}) = 2

-----------------------------------------------------------------------------
\* the requests without the header that have been through RequestID
Generated == {r \in Reqs : rq[r].active /\ rq[r].req.rid = "" /\ Acted(rq[r], 1)}

\* C7: however the requests interleave, no two requests without the header
\* hold the same generated ID, and the counter is its initial value (0) plus
\* the number of such requests that have been through RequestID.
C7_UniqueIDsNoLostIncrement ==
  /\ \A r1, r2 \in Generated : r1 # r2 => rq[r1].env.reqID # rq[r2].env.reqID
  /\ reqID = Cardinality(Generated)

\* C7 witness: every slot served a request without the header, all of them
\* are done, and the counter has counted each.
C7_Witness ==
  /\ \A r \in Reqs : Done(rq[r]) /\ rq[r].req.rid = ""
  /\ reqID >= 3

-----------------------------------------------------------------------------
\* the handler's last operation was ErrorString and the handler still runs
AfterErrorString(q) ==
  q.active /\ q.mode = "run" /\ q.hist # <<>> /\ q.hist[Len(q.hist)].op = "ErrorString"

\* some token of the text is str
Contains(text, str) == \E k \in 1..Len(text) : text[k] = str

\* C8 (as stated): after ErrorString(c, rw, code, str), c.Env["err"] is str
\* and the response has status code; its body is the generic text and does
\* not contain str when code >= 500, and is str when code < 500.
C8_Original ==
  \A r \in Reqs :
    LET q == rq[r] IN
      AfterErrorString(q) =>
        LET h == q.hist[Len(q.hist)] IN
          /\ q.env.err = Str(h.str)
          /\ q.rw.code = h.code
          /\ h.code >= 500 =>
               /\ q.rw.body = <<"Internal Error (request ID: ", GetReqID(q.env), ")">>
               /\ ~Contains(q.rw.body, h.str)
          /\ h.code < 500 => q.rw.body = <<h.str>>

\* C8 (amended): after ErrorString(c, rw, code, str), c.Env["err"] is str;
\* what it adds to the body is a text and a newline, the text being the
\* generic one for code >= 500 (str is not in it) and str for code < 500; on
\* a response nothing had been written to, the status is code and that is
\* the whole body; on a response whose header had been sent, the status sent
\* stays and the text follows the body already written.
C8_ErrorString ==
  \A r \in Reqs :
    LET q == rq[r] IN
      AfterErrorString(q) =>
        LET h == q.hist[Len(q.hist)]
            text == IF h.code >= 500
                    THEN <<"Internal Error (request ID: ", GetReqID(q.env), ")">>
                    ELSE <<h.str>>
        IN /\ q.env.err = Str(h.str)
           /\ q.rw.wrote
           /\ q.rw.code = IF q.pre.wrote THEN q.pre.code ELSE h.code
           /\ q.rw.body = q.pre.body \o text \o <<"\n">>
           /\ h.code >= 500 => ~Contains(text, h.str)

\* C8 witness: a handler below RequestID answered with ErrorString(500,
\* "boom") on an untouched response.
C8_Witness ==
  \E r \in Reqs :
    /\ AfterErrorString(rq[r]) /\ ~rq[r].pre.wrote
    /\ rq[r].hist[Len(rq[r].hist)].code = 500
    /\ GetReqID(rq[r].env) = "abc"
    /\ rq[r].rw.code = 500
    /\ rq[r].rw.body = <<"Internal Error (request ID: ", "abc", ")", "\n">>

-----------------------------------------------------------------------------
\* C9: ParamsLogger's Debug record is there from the moment the handler it
\* wraps is called, and not before ParamsLogger runs; a record of Logger15
\* is there only once the handler it wraps has been called and control has
\* come back through Logger15; where ParamsLogger sits below Logger15 its
\* record precedes Logger15's.
C9_BeginThenEnd ==
  \A r \in Reqs :
    LET q == rq[r] IN
      q.active =>
        /\ Has(q.chain, "ParamsLogger") =>
             LET i == Idx(q, "ParamsLogger") IN
               /\ q.calls[i + 1] >= 1 => Len(DebugRecords(r)) = 1
               /\ ~Acted(q, i) => Len(DebugRecords(r)) = 0
        /\ Has(q.chain, "Logger15") =>
             LET j == Idx(q, "Logger15") IN
               Len(L15Records(r)) >= 1 => (Left(q, j) /\ q.calls[j + 1] = 1)
        /\ \A a, b \in 1..Len(logs) :
             (logs[a].r = r /\ logs[b].r = r /\ logs[a].lvl = "dbug" /\ logs[b].lvl # "dbug")
               => a < b

\* C9 witness: a request through Logger15 and ParamsLogger is done; the
\* Debug record comes first, Logger15's second.
C9_Witness ==
  \E r \in Reqs :
    /\ Done(rq[r]) /\ rq[r].chain = <<"Logger15", "ParamsLogger">>
    /\ Len(logs) = 2 /\ logs[1].lvl = "dbug" /\ logs[2].lvl = "info"

-----------------------------------------------------------------------------
\* C10 (as stated): once GetJSONBody has acted on a request without
\* content-length and content-type whose body parses as JSON, the next
\* handler has been called exactly once, no error response is written
\* (c.Env["err"] unset and nothing written at the call of the next handler),
\* and c.Env["json"] holds the parsed body.
C10_Original ==
  \A r \in Reqs :
    LET q == rq[r] IN
      (q.active /\ Has(q.chain, "GetJSONBody") /\ Acted(q, Idx(q, "GetJSONBody"))
         /\ q.req.clh = "" /\ q.req.ct = "" /\ ParsesAsJSON(q.req.body)) =>
        LET i == Idx(q, "GetJSONBody") IN
          /\ q.calls[i + 1] = 1
          /\ q.env.json.t = "map"
          /\ (q.depth = i + 1 /\ q.mode = "call") => (~q.rw.wrote /\ q.env.err = Absent)

-----------------------------------------------------------------------------
\* Logger15 sits above Recoverer in the chain of q (the order of AddCommon15)
LoggerWrapsRecoverer(q) ==
  /\ Has(q.chain, "Logger15") /\ Has(q.chain, "Recoverer")
  /\ Idx(q, "Logger15") < Idx(q, "Recoverer")

\* ctx holds a stack entry: "stack", or "stack0" .. "stack2"
HasStackEntry(ctx) ==
  \E k \in 1..Len(ctx) : ctx[k][1] \in {"stack", "stack0", "stack1", "stack2"}

C12_LevelFromStatus ==
  \A r \in Reqs :
    LET q == rq[r]
        recs == L15Records(r)
        s == q.wp.code
    IN \A k \in 1..Len(recs) :
         LET rec == recs[k] IN
           /\ s >= 500 => rec.lvl = "crit"
           /\ (400 <= s /\ s < 500) => rec.lvl = "warn"
           /\ s < 400 => rec.lvl = "info"
           /\ HasPair(rec.ctx, "status", ToString(s))
           /\ IF q.env.err.t = "string"
              THEN HasPair(rec.ctx, "err", q.env.err.s)
              ELSE ~HasKey(rec.ctx, "err")
           /\ s < 500 => ~HasStackEntry(rec.ctx)
           /\ (s >= 500 /\ q.env.stack.t = "string") =>
                HasPair(rec.ctx, "stack", q.env.stack.s)
           /\ (s >= 500 /\ q.env.stack.t = "strings") => HasKey(rec.ctx, "stack0")
           /\ q.env.stack = Absent => ~HasStackEntry(rec.ctx)

\* C12 witness: records at each level exist; here a warn record of status
\* 499, without stack entry although c.Env["stack"] is set, with the err
\* string of c.Env.
C12_Witness ==
  \E r \in Reqs :
    /\ Done(rq[r]) /\ rq[r].wp.code = 499
    /\ rq[r].env.stack # Absent
    /\ Len(L15Records(r)) = 1
    /\ L15Records(r)[1].lvl = "warn"
    /\ ~HasStackEntry(L15Records(r)[1].ctx)

\* The message GetJSONBody rejects a request with, "" when it accepts it: an
\* unparsable content-length, a content-type that is neither empty nor
\* application/json, an empty body with a non-zero content-length, a body
\* that does not decode.
JSONRejection(req) ==
  IF req.clh # "" /\ Atoi(req.clh).err # ""
  THEN "Invalid content-length: " \o Atoi(req.clh).err
  ELSE IF req.ct \notin {"", "application/json"}
  THEN "Invalid content-type '" \o req.ct \o "', application/json expected"
  ELSE IF req.body = "" /\ req.clh # "" /\ Atoi(req.clh).n # 0
  THEN "Premature EOF reading post body"
  ELSE IF req.body # "" /\ Decode(req.body).err # ""
  THEN "Cannot parse JSON request body: " \o Decode(req.body).err
  ELSE ""

\* layer i of q rejected the request with msg: status 400 and msg sent,
\* msg in c.Env["err"], the next handler never called, control back above i
Rejected(q, i, msg) ==
  /\ Left(q, i) /\ q.mode = "ret"
  /\ q.calls[i + 1] = 0
  /\ q.rw.wrote /\ q.rw.code = 400 /\ q.rw.body = <<msg, "\n">>
  /\ q.env.err = Str(msg)

\* layer i of q passed the request on: the next handler called once, with
\* nothing written and no err at that call, and a response that holds what
\* the handler sent only (unless a Recoverer above answered a panic)
PassedOn(q, i) ==
  /\ q.calls[i + 1] = 1
  /\ (q.depth = i + 1 /\ q.mode = "call") => (~q.rw.wrote /\ q.env.err = Absent)
  /\ ~q.panicked =>
       /\ q.rw.wrote = (q.hist # <<>>)
       /\ q.rw.body = SentBody(q.hist, GetReqID(q.env))

\* C13: once FormParser has acted, a failed ParseForm means the request was
\* rejected with ParseForm's message, anything else that it was passed on;
\* once GetJSONBody has acted, each of its four rejection cases means the
\* request was rejected with the message of that case and c.Env["json"] is
\* unset, anything else that it was passed on.
C13_RejectStopsChain ==
  \A r \in Reqs :
    LET q == rq[r] IN
      /\ (q.active /\ Has(q.chain, "FormParser") /\ Acted(q, Idx(q, "FormParser"))) =>
           IF q.req.formErr # ""
           THEN Rejected(q, Idx(q, "FormParser"), q.req.formErr)
           ELSE PassedOn(q, Idx(q, "FormParser"))
      /\ (q.active /\ Has(q.chain, "GetJSONBody") /\ Acted(q, Idx(q, "GetJSONBody"))) =>
           IF JSONRejection(q.req) # ""
           THEN /\ Rejected(q, Idx(q, "GetJSONBody"), JSONRejection(q.req))
                /\ q.env.json = Absent
           ELSE PassedOn(q, Idx(q, "GetJSONBody"))

\* C13 witness: a request whose ParseForm failed is done, answered 400, its
\* handler never called.
C13_Witness ==
  \E r \in Reqs :
    /\ Done(rq[r]) /\ Has(rq[r].chain, "FormParser")
    /\ rq[r].req.formErr # ""
    /\ rq[r].rw.code = 400
    /\ rq[r].calls[H(rq[r])] = 0

\* C14 (as stated): whatever c.Env["stack"] holds, once control has come
\* back through Logger15 with a recorded status of 500 or more (and no panic
\* of the handler passing through), Logger15 returned normally and emitted
\* its one record, at level crit.
C14_Original ==
  \A r \in Reqs :
    LET q == rq[r] IN
      (q.active /\ Has(q.chain, "Logger15") /\ Left(q, Idx(q, "Logger15"))
         /\ q.wp.code >= 500 /\ ~Unrecovered(q, Idx(q, "Logger15"))) =>
        /\ q.mode = "ret"
        /\ Len(L15Records(r)) = 1
        /\ L15Records(r)[1].lvl = "crit"

====
